---------------------------- MODULE Spec2Model ----------------------------
(***************************************************************************)
(* Personal finance tracker (src/app.py, src/quick_init.py): the SQLite    *)
(* schema and its start-up migration, signup / login / logout, the         *)
(* login-protected routes (dashboard, add, assets, settings), the summary  *)
(* aggregation and the stand-alone quick_init script.                      *)
(*                                                                         *)
(* Text (form fields, usernames) is a sequence of one-character strings.   *)
(* Money is fixed point: REAL amounts are held in thousandths.             *)
(* A table row is a function from the table's column names to values.      *)
(***************************************************************************)
EXTENDS Integers, Sequences, FiniteSets, TLC

\* ------------------------------------------------------------ bounds
MaxRows == 1         \* rows the transactions and investments tables may hold together
MaxLen  == 3         \* length of the lists summarize is applied to (SpecSum)
MaxLegacyRows == 1   \* rows a table of an old database holds at start-up (SpecMig)

\* ------------------------------------------------------------ inputs
\* One browser with its session cookie: handlers run one request at a time,
\* and the requests of different users interleave through logout and login.
Clients == { "c1" }

\* the username and password fields of the signup and login forms
Form(username, password) == [ username |-> username, password |-> password ]

SignupForms ==
  { Form(<< " " >>, << "p" >>), Form(<< "a" >>, << >>), Form(<< " ", "a", " " >>, << "p" >>),
    Form(<< "a" >>, << "p" >>), Form(<< "b" >>, << "q" >>) }
LoginForms ==
  { Form(<< "a" >>, << "p" >>), Form(<< "a", " " >>, << "q" >>), Form(<< "b" >>, << "q" >>),
    Form(<< "b" >>, << "p" >>) }
CurrencyInputs == { "JPY", "XXX" }
CategoryInputs == { "Salary", "Rent" }
AmountInputs == { << "2" >>, << "-", "2" >>, << "x" >> }
SharesInputs == { << "1" >>, << >> }
PriceInputs  == { << "2" >>, << "x" >> }
DateInputs   == { 20240115 }                  \* "YYYY-MM-DD" read as YYYYMMDD
Todays       == { 20240301, 20241101 }        \* datetime.date.today()

NULL == "NULL"

\* ------------------------------------------------------------ currencies
\* USD -> local demo rates, in hundredths
CURRENCY_RATES ==
  [ USD |-> 100, EUR |-> 93, GBP |-> 78, INR |-> 8300,
    AUD |-> 150, CAD |-> 135, JPY |-> 15600 ]

CURRENCY_CHOICES == DOMAIN CURRENCY_RATES

\* x / y rounded toward zero, as a stand-in for float division (sign-symmetric)
Quot(x, y) == IF x >= 0 THEN x \div y ELSE -((-x) \div y)

\* amount_local / rate, with rate defaulting to 1.0 for an unknown currency
to_usd(amount_local, currency) ==
  LET rate == IF currency \in DOMAIN CURRENCY_RATES
              THEN CURRENCY_RATES[currency] ELSE 100
  IN  Quot(amount_local * 100, rate)

\* ------------------------------------------------------------ categories
CATEGORY_MAP ==
  [ Salary |-> "income", Freelance |-> "income", Dividends |-> "income",
    Rent |-> "expense", Utilities |-> "expense", Groceries |-> "expense",
    Dining |-> "expense", Shopping |-> "expense", Transport |-> "expense",
    Entertainment |-> "expense", Healthcare |-> "expense" ]

\* CATEGORY_MAP.get(category, "income")
CategoryType(category) ==
  IF category \in DOMAIN CATEGORY_MAP THEN CATEGORY_MAP[category] ELSE "income"

\* ------------------------------------------------------------ text
Whitespace == { " " }

RECURSIVE lstrip(_)
lstrip(s) == IF s # <<>> /\ Head(s) \in Whitespace THEN lstrip(Tail(s)) ELSE s

RECURSIVE rstrip(_)
rstrip(s) ==
  IF s # <<>> /\ s[Len(s)] \in Whitespace THEN rstrip(SubSeq(s, 1, Len(s) - 1)) ELSE s

\* Faulty variant: the form field used as typed
strip_Missing(s) == s

\* str.strip()
strip(s) == rstrip(lstrip(s))

Digits == [ d \in {"0", "1", "2", "3", "4", "5", "6", "7", "8", "9"} |->
            CASE d = "0" -> 0 [] d = "1" -> 1 [] d = "2" -> 2 [] d = "3" -> 3
              [] d = "4" -> 4 [] d = "5" -> 5 [] d = "6" -> 6 [] d = "7" -> 7
              [] d = "8" -> 8 [] d = "9" -> 9 ]

RECURSIVE DigitsValue(_)
DigitsValue(s) ==
  IF s = <<>> THEN 0 ELSE 10 * DigitsValue(SubSeq(s, 1, Len(s) - 1)) + Digits[s[Len(s)]]

\* float(text) for the integer literals: optional sign, then one or more digits.
\* The result is in thousandths; anything else raises ValueError.
IsNumber(text) ==
  LET t == strip(text)
      body == IF t # <<>> /\ Head(t) \in {"-", "+"} THEN Tail(t) ELSE t
  IN  body # <<>> /\ \A i \in 1..Len(body) : body[i] \in DOMAIN Digits

float(text) ==
  LET t == strip(text)
      neg == t # <<>> /\ Head(t) = "-"
      body == IF t # <<>> /\ Head(t) \in {"-", "+"} THEN Tail(t) ELSE t
  IN  IF neg THEN -(1000 * DigitsValue(body)) ELSE 1000 * DigitsValue(body)

\* ------------------------------------------------------------ passwords
\* werkzeug generate_password_hash / check_password_hash
generate_password_hash(password) == << "pbkdf2", password >>

\* Faulty variant: the password is not compared
check_password_hash_Any(pwhash, password) == TRUE

check_password_hash(pwhash, password) == pwhash = << "pbkdf2", password >>

\* bcrypt.hashpw(password, bcrypt.gensalt())
bcrypt_hashpw(password) == << "bcrypt", password >>

\* ------------------------------------------------------------ state
VARIABLES
  dbFile,        \* finance.db exists
  cols,          \* table name -> its column names ({}: no such table)
  users,         \* rows of users, in rowid order
  transactions,  \* rows of transactions, in rowid order
  investments,   \* rows of investments, in rowid order
  appUp,         \* app.py was imported without error and serves requests
  session,       \* client -> the session's "user_id" (0: not set)
  response       \* what the last operation answered

vars == << dbFile, cols, users, transactions, investments, appUp, session, response >>
dbVars == << dbFile, cols, users, transactions, investments >>

Tables == { "users", "transactions", "investments" }

UsersCols == { "id", "username", "password_hash", "created_at", "currency" }
TransactionsCols == { "id", "date", "description", "category", "amount", "user_id" }
InvestmentsCols == { "id", "date", "ticker", "shares", "price", "user_id" }

\* the columns of each CREATE TABLE IF NOT EXISTS of init_db
CreateCols ==
  [ users |-> UsersCols, transactions |-> TransactionsCols, investments |-> InvestmentsCols ]

\* a response: the operation, the id of g.user while it ran (0: g.user is None),
\* the HTTP outcome, the flashed message ("": none) and the template's context
Resp(op, uid, status, flash, body) ==
  [ op |-> op, uid |-> uid, status |-> status, flash |-> flash, body |-> body ]

NoBody == [ none |-> TRUE ]

\* ------------------------------------------------------------ SQL helpers
\* the database as one value: columns and rows per table, and whether the
\* statements run so far all succeeded
DB == [ cols |-> cols,
        rows |-> [ users |-> users, transactions |-> transactions,
                   investments |-> investments ],
        ok |-> TRUE ]

\* CREATE TABLE IF NOT EXISTS table(columns)
CreateTableIfNotExists(db, table, columns) ==
  IF db.ok /\ db.cols[table] = {}
  THEN [db EXCEPT !.cols[table] = columns]
  ELSE db

\* ALTER TABLE table ADD COLUMN col DEFAULT dflt: every existing row gets dflt.
\* SQLite refuses a non-constant default (CURRENT_TIMESTAMP) on a table that
\* holds rows ("Cannot add a column with non-constant default"), and a table
\* that does not exist.
AlterTableAddColumn(db, table, col, dflt, constant) ==
  IF ~db.ok THEN db
  ELSE IF db.cols[table] = {} \/ (~constant /\ db.rows[table] # <<>>)
  THEN [db EXCEPT !.ok = FALSE]
  ELSE [db EXCEPT
          !.cols[table] = @ \cup {col},
          !.rows[table] =
             [ i \in 1..Len(@) |->
                 [ c \in DOMAIN @[i] \cup {col} |-> IF c = col THEN dflt ELSE @[i][c] ] ] ]

\* if col not in _cols(conn, table): ALTER TABLE table ADD COLUMN col ...
AddIfMissing(db, table, col, dflt, constant) ==
  IF db.ok /\ col \notin db.cols[table]
  THEN AlterTableAddColumn(db, table, col, dflt, constant)
  ELSE db

\* the id an INTEGER PRIMARY KEY AUTOINCREMENT column gives the next row
RECURSIVE MaxId(_)
MaxId(rows) ==
  IF rows = <<>> THEN 0
  ELSE LET m == MaxId(Tail(rows))
           h == IF "id" \in DOMAIN Head(rows) THEN Head(rows).id ELSE 0
       IN  IF h > m THEN h ELSE m

NextId(rows) == MaxId(rows) + 1

\* ------------------------------------------------------------ init_db
\* the three CREATE TABLE IF NOT EXISTS, then the auto-migration loop; every
\* DDL statement is committed as it runs, so a failing ALTER keeps what the
\* statements before it did and skips the rest
init_db(db) ==
  LET d1 == CreateTableIfNotExists(db, "users", CreateCols.users)
      d2 == CreateTableIfNotExists(d1, "transactions", CreateCols.transactions)
      d3 == CreateTableIfNotExists(d2, "investments", CreateCols.investments)
      d4 == AddIfMissing(d3, "users", "password_hash", NULL, TRUE)
      d5 == AddIfMissing(d4, "users", "created_at", "now", FALSE)
      d6 == AddIfMissing(d5, "users", "currency", "USD", TRUE)
      d7 == AddIfMissing(d6, "transactions", "user_id", NULL, TRUE)
      d8 == AddIfMissing(d7, "investments", "user_id", NULL, TRUE)
  IN  d8

\* app.py is started (imported): init_db runs under app.app_context()
InitDb ==
  LET d == init_db(DB)
  IN  /\ response' = Resp("init_db", 0, IF d.ok THEN "ok" ELSE "OperationalError", "", NoBody)
      /\ dbFile' = TRUE
      /\ cols' = d.cols
      /\ users' = d.rows.users
      /\ transactions' = d.rows.transactions
      /\ investments' = d.rows.investments
      /\ appUp' = d.ok
      /\ UNCHANGED session

\* ------------------------------------------------------------ auth utils
\* load_logged_in_user: g.user, as the set of rows SELECT ... WHERE id=uid
\* fetches ({}: None); "if not uid" also covers a session without user_id
load_logged_in_user(c) ==
  LET uid == session[c]
  IN  IF uid = 0 THEN {}
      ELSE { users[i] : i \in { j \in 1..Len(users) : users[j].id = uid } }

\* Faulty variant: a view registered without @login_required
login_required_Missing(c) == TRUE

\* login_required: TRUE when the wrapped view runs, FALSE when the request is
\* redirected to login
login_required(c) == load_logged_in_user(c) # {}

g_user(c) == CHOOSE u \in load_logged_in_user(c) : TRUE

g_uid(c) == IF load_logged_in_user(c) = {} THEN 0 ELSE g_user(c).id

RedirectLogin(op) == Resp(op, 0, "302 /login", "", NoBody)

\* a view that subscripts g.user while it is None: TypeError, answered 500
TypeError(op) == Resp(op, 0, "500 TypeError", "", NoBody)

IsNone(c) == load_logged_in_user(c) = {}

\* ------------------------------------------------------------ auth routes
\* Faulty variant: the users table without its UNIQUE constraint
UsernameTaken_NoConstraint(username) == FALSE

\* the UNIQUE constraint on users.username: the INSERT raises IntegrityError
UsernameTaken(username) ==
  \E i \in 1..Len(users) : users[i].username = username

\* SELECT * FROM users WHERE username=?  (fetchone: a set of at most one row)
UserByName(username) ==
  { users[i] : i \in { j \in 1..Len(users) : users[j].username = username } }

\* POST /signup
SignupPost(c, rawname, password) ==
  LET username == strip(rawname)
      pw_hash == generate_password_hash(password)
      row == [ id |-> NextId(users), username |-> username, password_hash |-> pw_hash,
               created_at |-> "now", currency |-> "USD" ]
  IN  /\ appUp
      /\ IF username = <<>> \/ password = <<>>
         THEN /\ response' = Resp("POST /signup", g_uid(c), "200",
                                  "Username and password are required.", NoBody)
              /\ UNCHANGED users
         ELSE IF UsernameTaken(username)
         THEN /\ response' = Resp("POST /signup", g_uid(c), "200",
                                  "Username is taken. Choose another one.", NoBody)
              /\ UNCHANGED users
         ELSE /\ users' = Append(users, row)
              /\ response' = Resp("POST /signup", g_uid(c), "302 /login",
                                  "Account created! Please sign in.", NoBody)
      /\ UNCHANGED << dbFile, cols, transactions, investments, appUp, session >>

\* POST /login
LoginPost(c, rawname, password) ==
  LET username == strip(rawname)
      user == UserByName(username)
      found == CHOOSE u \in user : TRUE
  IN  /\ appUp
      /\ IF user # {} /\ check_password_hash(found.password_hash, password)
         THEN /\ session' = [session EXCEPT ![c] = found.id]
              /\ response' = Resp("POST /login", g_uid(c), "302 /", "", NoBody)
         ELSE /\ response' = Resp("POST /login", g_uid(c), "200",
                                  "Invalid username or password.", NoBody)
              /\ UNCHANGED session
      /\ UNCHANGED << dbVars, appUp >>

\* GET /signup and GET /login only render their form
FormGet(c, route) ==
  /\ appUp
  /\ response' = Resp(route, g_uid(c), "200", "", NoBody)
  /\ UNCHANGED << dbVars, appUp, session >>

\* GET /logout
Logout(c) ==
  /\ appUp
  /\ session' = [session EXCEPT ![c] = 0]
  /\ response' = Resp("GET /logout", g_uid(c), "302 /login", "", NoBody)
  /\ UNCHANGED << dbVars, appUp >>

\* ------------------------------------------------------------ settings
\* g.user["currency"] or "USD"
UserCurrency(user) ==
  IF user.currency = NULL \/ user.currency = "" THEN "USD" ELSE user.currency

SettingsGet(c) ==
  /\ appUp
  /\ response' = IF ~login_required(c) THEN RedirectLogin("GET /settings")
                 ELSE IF IsNone(c) THEN TypeError("GET /settings")
                 ELSE Resp("GET /settings", g_uid(c), "200", "",
                           [ current |-> UserCurrency(g_user(c)) ])
  /\ UNCHANGED << dbVars, appUp, session >>

\* POST /settings: UPDATE users SET currency=? WHERE id=?
SettingsPost(c, currency) ==
  /\ appUp
  /\ IF ~login_required(c)
     THEN /\ response' = RedirectLogin("POST /settings")
          /\ UNCHANGED users
     ELSE IF IsNone(c)
     THEN /\ response' = TypeError("POST /settings")
          /\ UNCHANGED users
     ELSE IF currency \notin CURRENCY_CHOICES
     THEN /\ response' = Resp("POST /settings", g_uid(c), "200", "Invalid currency.",
                              [ current |-> UserCurrency(g_user(c)) ])
          /\ UNCHANGED users
     ELSE /\ users' = [ i \in 1..Len(users) |->
                          IF users[i].id = g_uid(c)
                          THEN [users[i] EXCEPT !.currency = currency]
                          ELSE users[i] ]
          /\ response' = Resp("POST /settings", g_uid(c), "302 /settings",
                              "Settings updated.", NoBody)
  /\ UNCHANGED << dbFile, cols, transactions, investments, appUp, session >>

\* ------------------------------------------------------------ insights
\* datetime.strptime(date, "%Y-%m-%d"): the fields of a YYYYMMDD date
Year(date)  == date \div 10000
Month(date) == (date \div 100) % 100
Day(date)   == date % 100

\* the day number of a date, so that (today - d).days is a difference
toordinal(date) ==
  LET a == (14 - Month(date)) \div 12
      y == Year(date) + 4800 - a
      m == Month(date) + 12 * a - 3
  IN  Day(date) + ((153 * m + 2) \div 5) + 365 * y + (y \div 4) - (y \div 100)
        + (y \div 400) - 32045

RECURSIVE Sum(_)
Sum(seq) == IF seq = <<>> THEN 0 ELSE Head(seq) + Sum(Tail(seq))

\* a dict is a sequence of <<key, value>> in insertion order
DictKeys(d) == { d[i][1] : i \in 1..Len(d) }
DictGet(d, k) == IF k \in DictKeys(d) THEN d[CHOOSE i \in 1..Len(d) : d[i][1] = k][2] ELSE 0
DictValues(d) == [ i \in 1..Len(d) |-> d[i][2] ]

\* d[k] = d.get(k, 0) + v
DictAdd(d, k, v) ==
  IF k \in DictKeys(d)
  THEN [ i \in 1..Len(d) |-> IF d[i][1] = k THEN << k, d[i][2] + v >> ELSE d[i] ]
  ELSE Append(d, << k, v >>)

Filter(seq, Keep(_)) == SelectSeq(seq, Keep)

Amounts(txns) == [ i \in 1..Len(txns) |-> txns[i].amount ]

\* Faulty variant: an expense added to its month bucket with its sign
RECURSIVE Aggregate_SignedExpense(_, _)
Aggregate_SignedExpense(txns, acc) ==
  IF txns = <<>> THEN acc
  ELSE LET t == Head(txns)
           amt == t.amount
           m == Month(t.date)
       IN  Aggregate_SignedExpense(Tail(txns),
             [ cat_totals |-> DictAdd(acc.cat_totals, t.category, amt),
               month_inc  |-> IF amt >= 0 THEN [acc.month_inc EXCEPT ![m] = @ + amt]
                                          ELSE acc.month_inc,
               month_exp  |-> IF amt >= 0 THEN acc.month_exp
                                          ELSE [acc.month_exp EXCEPT ![m] = @ + amt] ])

\* the loop over txns: month buckets and category totals
RECURSIVE Aggregate(_, _)
Aggregate(txns, acc) ==
  IF txns = <<>> THEN acc
  ELSE LET t == Head(txns)
           amt == t.amount
           m == Month(t.date)          \* index d.month - 1 of a 0-based list
       IN  Aggregate(Tail(txns),
             [ cat_totals |-> DictAdd(acc.cat_totals, t.category, amt),
               month_inc  |-> IF amt >= 0 THEN [acc.month_inc EXCEPT ![m] = @ + amt]
                                          ELSE acc.month_inc,
               month_exp  |-> IF amt >= 0 THEN acc.month_exp
                                          ELSE [acc.month_exp EXCEPT ![m] = @ + (-amt)] ])

\* the longest run of months with monthly_net >= 0
RECURSIVE Streak(_, _, _)
Streak(net, cur, best) ==
  IF net = <<>> THEN best
  ELSE LET c == IF Head(net) >= 0 THEN cur + 1 ELSE 0
       IN  Streak(Tail(net), c, IF c > best THEN c ELSE best)

\* min(spends, key=spends.get): the first key with the least value
RECURSIVE MinEntry(_)
MinEntry(d) ==
  IF Len(d) = 1 THEN d[1]
  ELSE LET r == MinEntry(Tail(d)) IN IF d[1][2] <= r[2] THEN d[1] ELSE r

\* shares * price of an investment row, in thousandths
AssetValue(i) == Quot(i.shares * i.price, 1000)

AssetValues(invests) == [ k \in 1..Len(invests) |-> AssetValue(invests[k]) ]

Msgs(cond, msg) == IF cond THEN << msg >> ELSE << >>

summarize(txns, invests, today) ==
  LET balance == Sum(Amounts(txns))
      IsRecent(t) == toordinal(today) - toordinal(t.date) <= 90
      last_90 == Filter(txns, IsRecent)
      acc == Aggregate(txns, [ cat_totals |-> << >>,
                               month_inc |-> [ i \in 1..12 |-> 0 ],
                               month_exp |-> [ i \in 1..12 |-> 0 ] ])
      cat_totals == acc.cat_totals
      month_inc == acc.month_inc
      month_exp == acc.month_exp
      \* savings streak
      monthly_net == [ i \in 1..12 |-> month_inc[i] - month_exp[i] ]
      streak == Streak(monthly_net, 0, 0)
      m1 == Msgs(streak >= 3, << "Savings streak", streak >>)
      \* spend tilt: share > 0.4
      IsSpend(e) == e[2] < 0
      spends == Filter(cat_totals, IsSpend)
      total_spend == -Sum(DictValues(spends))
      worst == MinEntry(spends)
      m2 == Msgs(spends # << >> /\ total_spend # 0
                   /\ 10 * (-worst[2]) > 4 * total_spend,
                 << "Spending tilt", worst[1] >>)
      \* income diversity: v / inc_total > 0.1
      IsIncome(e) == e[2] > 0
      incomes == Filter(cat_totals, IsIncome)
      inc_total == Sum(DictValues(incomes))
      IsSolid(e) == 10 * e[2] > inc_total
      diversified == Len(Filter(incomes, IsSolid))
      m3 == Msgs(inc_total > 0,
                 IF diversified >= 2 THEN << "Multiple solid income sources detected." >>
                 ELSE << "Consider diversifying income sources." >>)
      \* portfolio diversification: hhi = sum((v / total)^2) < 0.4
      vals == AssetValues(invests)
      total_assets == Sum(vals)
      squares == [ k \in 1..Len(vals) |-> vals[k] * vals[k] ]
      m4 == Msgs(total_assets > 0,
                 IF 10 * Sum(squares) < 4 * total_assets * total_assets
                 THEN << "Portfolio looks diversified." >>
                 ELSE << "Portfolio concentration is high; consider more variety." >>)
      \* savings rate of the last 90 days: rate = (inc90 - exp90) / inc90
      IsInc(t) == t.amount >= 0
      IsExp(t) == t.amount < 0
      inc90 == Sum(Amounts(Filter(last_90, IsInc)))
      exp90 == -Sum(Amounts(Filter(last_90, IsExp)))
      m5 == Msgs(inc90 # 0,
                 IF inc90 - exp90 < 0
                 THEN << "You spent more than you earned in the last 3 months." >>
                 ELSE IF 10 * (inc90 - exp90) < inc90
                 THEN << "Savings rate <10% in the last 3 months" >>
                 ELSE << "Savings rate last 3 months" >>)
      msgs == m1 \o m2 \o m3 \o m4 \o m5
  IN  [ balance |-> balance,
        category_totals |-> cat_totals,
        month_income |-> month_inc,
        month_expense |-> month_exp,
        insights |-> IF msgs = << >>
                     THEN << << "Spending looks balanced. Keep it up!" >> >>
                     ELSE msgs ]

\* ------------------------------------------------------------ app routes
\* ORDER BY date: rows of equal date stay in rowid order
RECURSIVE InsertByDate(_, _)
InsertByDate(sorted, r) ==
  IF sorted = << >> THEN << r >>
  ELSE IF r.date < Head(sorted).date THEN << r >> \o sorted
  ELSE << Head(sorted) >> \o InsertByDate(Tail(sorted), r)

RECURSIVE OrderByDate(_)
OrderByDate(rows) ==
  IF rows = << >> THEN << >>
  ELSE InsertByDate(OrderByDate(SubSeq(rows, 1, Len(rows) - 1)), rows[Len(rows)])

Reverse(seq) == [ i \in 1..Len(seq) |-> seq[Len(seq) + 1 - i] ]

\* Faulty variant: the query without its WHERE user_id=?
SelectByUser_All(table, uid) == OrderByDate(table)

\* SELECT * FROM table WHERE user_id=? ORDER BY date
SelectByUser(table, uid) ==
  LET Mine(r) == r.user_id = uid IN OrderByDate(Filter(table, Mine))

\* what dashboard() hands to index.html for the user with id uid, read from
\* the given transactions and investments tables
DashboardContextOn(txnsTable, invTable, uid, today) ==
  LET txns == SelectByUser(txnsTable, uid)
      invests == SelectByUser(invTable, uid)
      summary == summarize(txns, invests, today)
      IsSpend(e) == e[2] < 0
      spent == Filter(summary.category_totals, IsSpend)
  IN  [ txns |-> txns,
        invests |-> invests,
        summary |-> summary,
        net_worth |-> summary.balance + Sum(AssetValues(invests)),
        asset_labels |-> [ k \in 1..Len(invests) |-> invests[k].ticker ],
        asset_values |-> AssetValues(invests),
        exp_labels |-> [ k \in 1..Len(spent) |-> spent[k][1] ],
        exp_values |-> [ k \in 1..Len(spent) |-> -spent[k][2] ] ]

DashboardContext(uid, today) == DashboardContextOn(transactions, investments, uid, today)

\* GET /
Dashboard(c, today) ==
  /\ appUp
  /\ response' = IF ~login_required(c) THEN RedirectLogin("GET /")
                 ELSE IF IsNone(c) THEN TypeError("GET /")
                 ELSE Resp("GET /", g_uid(c), "200", "", DashboardContext(g_uid(c), today))
  /\ UNCHANGED << dbVars, appUp, session >>

\* amount_usd if the category is an income category, else -amount_usd
SignedAmount(category, amount_usd) ==
  IF CategoryType(category) = "income" THEN amount_usd ELSE -amount_usd

\* Faulty variant: every row stored for the first account
OwnerOf_First(c) == 1

\* the user_id add() and assets() store with a new row
OwnerOf(c) == g_uid(c)

AddGet(c) ==
  /\ appUp
  /\ response' = IF ~login_required(c) THEN RedirectLogin("GET /add")
                 ELSE IF IsNone(c) THEN Resp("GET /add", 0, "200", "", [ currency |-> "USD" ])
                 ELSE Resp("GET /add", g_uid(c), "200", "",
                           [ currency |-> UserCurrency(g_user(c)) ])
  /\ UNCHANGED << dbVars, appUp, session >>

\* POST /add
AddPost(c, date, category, amount) ==
  LET cur == UserCurrency(g_user(c))
      amount_usd == to_usd(float(amount), cur)
      amt == SignedAmount(category, amount_usd)
      row == [ id |-> NextId(transactions), date |-> date, description |-> "note",
               category |-> category, amount |-> amt, user_id |-> OwnerOf(c) ]
  IN  /\ appUp
      /\ IF ~login_required(c)
         THEN /\ response' = RedirectLogin("POST /add")
              /\ UNCHANGED transactions
         ELSE IF IsNone(c)
         THEN /\ response' = TypeError("POST /add")
              /\ UNCHANGED transactions
         ELSE IF ~IsNumber(amount)
         THEN /\ response' = Resp("POST /add", g_uid(c), "500 ValueError", "", NoBody)
              /\ UNCHANGED transactions
         ELSE /\ Len(transactions) + Len(investments) < MaxRows
              /\ transactions' = Append(transactions, row)
              /\ response' = Resp("POST /add", g_uid(c), "302 /", "", NoBody)
      /\ UNCHANGED << dbFile, cols, users, investments, appUp, session >>

\* what assets() hands to assets.html: ORDER BY date DESC
AssetsContextOn(invTable, uid) ==
  LET rows == Reverse(SelectByUser(invTable, uid))
  IN  [ rows |-> rows,
        pie_labels |-> [ k \in 1..Len(rows) |-> rows[k].ticker ],
        pie_values |-> AssetValues(rows),
        total_usd |-> Sum(AssetValues(rows)) ]

AssetsContext(uid) == AssetsContextOn(investments, uid)

\* GET /assets
AssetsGet(c) ==
  /\ appUp
  /\ response' = IF ~login_required(c) THEN RedirectLogin("GET /assets")
                 ELSE IF IsNone(c) THEN TypeError("GET /assets")
                 ELSE Resp("GET /assets", g_uid(c), "200", "", AssetsContext(g_uid(c)))
  /\ UNCHANGED << dbVars, appUp, session >>

\* POST /assets
AssetsPost(c, date, shares, price) ==
  LET cur == UserCurrency(g_user(c))
      row == [ id |-> NextId(investments), date |-> date, ticker |-> strip(<< "T", " " >>),
               shares |-> float(shares), price |-> to_usd(float(price), cur),
               user_id |-> OwnerOf(c) ]
  IN  /\ appUp
      /\ IF ~login_required(c)
         THEN /\ response' = RedirectLogin("POST /assets")
              /\ UNCHANGED investments
         ELSE IF IsNone(c)
         THEN /\ response' = TypeError("POST /assets")
              /\ UNCHANGED investments
         ELSE IF ~IsNumber(shares) \/ ~IsNumber(price)
         THEN /\ response' = Resp("POST /assets", g_uid(c), "500 ValueError", "", NoBody)
              /\ UNCHANGED investments
         ELSE /\ Len(transactions) + Len(investments) < MaxRows
              /\ investments' = Append(investments, row)
              /\ response' = Resp("POST /assets", g_uid(c), "302 /assets", "", NoBody)
      /\ UNCHANGED << dbFile, cols, users, transactions, appUp, session >>

\* ------------------------------------------------------------ quick_init.py
\* The script: CREATE TABLE IF NOT EXISTS users(id, username, pw_hash), add
\* transactions.user_id DEFAULT 1 when missing, then INSERT OR IGNORE the
\* admin row. Its DDL is committed as it runs; the first failing statement
\* ends the script with an OperationalError before anything is printed.
quick_init(db, rawname, password) ==
  LET username == strip(rawname)
      d1 == CreateTableIfNotExists(db, "users", { "id", "username", "pw_hash" })
      d2 == AddIfMissing(d1, "transactions", "user_id", 1, TRUE)
      columnsOk == { "username", "pw_hash" } \subseteq d2.cols.users
      old == d2.rows.users
      ignored == \E i \in 1..Len(old) : old[i].username = username
      dflt == [ c \in d2.cols.users |->
                 CASE c = "id" -> NextId(old)
                   [] c = "username" -> username
                   [] c = "pw_hash" -> bcrypt_hashpw(password)
                   [] c = "created_at" -> "now"
                   [] c = "currency" -> "USD"
                   [] OTHER -> NULL ]
  IN  IF ~d2.ok THEN d2
      ELSE IF ~columnsOk THEN [d2 EXCEPT !.ok = FALSE]
      ELSE IF ignored THEN d2
      ELSE [d2 EXCEPT !.rows.users = Append(old, dflt)]

QuickInit(rawname, password) ==
  LET d == quick_init(DB, rawname, password)
  IN  /\ dbFile
      /\ response' = Resp("quick_init", 0,
                          IF d.ok THEN "Admin user created." ELSE "OperationalError",
                          "", NoBody)
      /\ cols' = d.cols
      /\ users' = d.rows.users
      /\ transactions' = d.rows.transactions
      /\ investments' = d.rows.investments
      /\ UNCHANGED << dbFile, appUp, session >>

\* ------------------------------------------------------------ specification
\* before app.py is first started: no finance.db, no session cookie
Init ==
  /\ dbFile = FALSE
  /\ cols = [ t \in Tables |-> {} ]
  /\ users = << >>
  /\ transactions = << >>
  /\ investments = << >>
  /\ appUp = FALSE
  /\ session = [ c \in Clients |-> 0 ]
  /\ response = Resp("none", 0, "", "", NoBody)

Next ==
  \/ InitDb
  \/ \E f \in SignupForms : QuickInit(f.username, f.password)
  \/ \E c \in Clients, f \in SignupForms : SignupPost(c, f.username, f.password)
  \/ \E c \in Clients, f \in LoginForms : LoginPost(c, f.username, f.password)
  \/ \E c \in Clients, route \in { "GET /signup", "GET /login" } : FormGet(c, route)
  \/ \E c \in Clients : Logout(c)
  \/ \E c \in Clients : SettingsGet(c)
  \/ \E c \in Clients, cur \in CurrencyInputs : SettingsPost(c, cur)
  \/ \E c \in Clients, today \in Todays : Dashboard(c, today)
  \/ \E c \in Clients : AddGet(c)
  \/ \E c \in Clients, d \in DateInputs, k \in CategoryInputs, a \in AmountInputs :
        AddPost(c, d, k, a)
  \/ \E c \in Clients : AssetsGet(c)
  \/ \E c \in Clients, d \in DateInputs, sh \in SharesInputs, pr \in PriceInputs :
        AssetsPost(c, d, sh, pr)

Spec == Init /\ [][Next]_vars

\* ------------------------------------------------------------ old databases
\* SpecMig: app.py and quick_init.py started on a finance.db left by an older
\* version, whose tables may lack columns (or not exist: {})
CoreCols ==
  [ users |-> { "username" },
    transactions |-> { "id", "date", "description", "category" },
    investments |-> { "id", "date", "ticker", "shares" } ]

LegacySchemas(t) ==
  { {} } \cup { S \in SUBSET CreateCols[t] : CoreCols[t] \subseteq S }

LegacyValue(col, i) ==
  CASE col \in { "id", "user_id" } -> i
    [] col = "username" -> [ k \in 1..i |-> "a" ]
    [] col = "password_hash" -> generate_password_hash(<< "p" >>)
    [] col = "created_at" -> "then"
    [] col = "currency" -> "EUR"
    [] col = "date" -> 20230101 + i
    [] col = "amount" -> -1000 * i
    [] col \in { "shares", "price" } -> 1000 * i
    [] OTHER -> "text"

LegacyRows(S, n) == [ i \in 1..n |-> [ col \in S |-> LegacyValue(col, i) ] ]

LegacyCounts(S) == IF S = {} THEN { 0 } ELSE 0..MaxLegacyRows

InitMig ==
  /\ dbFile = TRUE
  /\ cols \in [ Tables -> UNION { LegacySchemas(t) : t \in Tables } ]
  /\ \A t \in Tables : cols[t] \in LegacySchemas(t)
  /\ \E n \in LegacyCounts(cols.users) : users = LegacyRows(cols.users, n)
  /\ \E n \in LegacyCounts(cols.transactions) :
        transactions = LegacyRows(cols.transactions, n)
  /\ \E n \in LegacyCounts(cols.investments) :
        investments = LegacyRows(cols.investments, n)
  /\ appUp = FALSE
  /\ session = [ c \in Clients |-> 0 ]
  /\ response = Resp("none", 0, "", "", NoBody)

NextMig ==
  \/ InitDb
  \/ \E f \in SignupForms : QuickInit(f.username, f.password)

SpecMig == InitMig /\ [][NextMig]_vars

\* ------------------------------------------------------------ summarize alone
\* SpecSum: summarize applied to every list of at most MaxLen transactions
SumAmounts == { -3, 0, 2 }
SumDates == { 20231215, 20240105, 20240120 }
SumCategories == { "Salary", "Rent" }

SumRows ==
  [ date : SumDates, category : SumCategories, amount : SumAmounts,
    description : { "note" }, user_id : { 1 } ]

SumLists == UNION { [ 1..n -> SumRows ] : n \in 0..MaxLen }

\* the rows of a list, with the ids the table gives them
WithIds(list) ==
  [ i \in 1..Len(list) |->
      [ id |-> i, date |-> list[i].date, description |-> list[i].description,
        category |-> list[i].category, amount |-> list[i].amount,
        user_id |-> list[i].user_id ] ]

InitSum ==
  /\ dbFile = TRUE
  /\ cols = CreateCols
  /\ users = << >>
  /\ \E list \in SumLists : transactions = WithIds(list)
  /\ investments = << >>
  /\ appUp = TRUE
  /\ session = [ c \in Clients |-> 0 ]
  /\ response = Resp("none", 0, "", "", NoBody)

Summarize(today) ==
  /\ response' = Resp("summarize", 0, "", "", summarize(transactions, investments, today))
  /\ UNCHANGED << dbVars, appUp, session >>

NextSum == \E today \in Todays : Summarize(today)

SpecSum == InitSum /\ [][NextSum]_vars

\* ------------------------------------------------------------ properties
\* text that is only whitespace
IsBlank(text) == \A i \in 1..Len(text) : text[i] = " "

\* raw is name with whitespace around it, name itself having none at its ends
StripsTo(raw, name) ==
  /\ name = << >> => IsBlank(raw)
  /\ name # << >> =>
        /\ name[1] # " " /\ name[Len(name)] # " "
        /\ \E k \in 0..Len(raw) :
              /\ k + Len(name) <= Len(raw)
              /\ SubSeq(raw, k + 1, k + Len(name)) = name
              /\ IsBlank(SubSeq(raw, 1, k))
              /\ IsBlank(SubSeq(raw, k + Len(name) + 1, Len(raw)))

IncomeCategories == { "Salary", "Freelance", "Dividends" }
ExpenseCategories ==
  { "Rent", "Utilities", "Groceries", "Dining", "Shopping", "Transport",
    "Entertainment", "Healthcare" }

\* C1: every stored transaction has the sign of its category type: amount >= 0
\* for an income category, amount <= 0 for an expense category.
C1_SignMatchesCategory ==
  \A i \in 1..Len(transactions) :
     /\ transactions[i].category \in IncomeCategories => transactions[i].amount >= 0
     /\ transactions[i].category \in ExpenseCategories => transactions[i].amount <= 0

\* C2: a signup whose stripped username is an existing user's adds no row and
\* leaves every row as it was, and no two rows ever share a username.
UniqueUsernames ==
  \A i, j \in 1..Len(users) : users[i].username = users[j].username => i = j

C2_DuplicateSignupRejected ==
  /\ [] UniqueUsernames
  /\ [][ \A c \in Clients, f \in SignupForms :
           ( /\ response'.op = "POST /signup"
             /\ SignupPost(c, f.username, f.password)
             /\ \E i \in 1..Len(users) : StripsTo(f.username, users[i].username) )
           => users' = users ]_vars

C2_Witness ==
  /\ response.op = "POST /signup"
  /\ response.flash = "Username is taken. Choose another one."
  /\ Len(users) = 1

\* C4: a signup whose username is blank or whose password is empty flashes a
\* message and leaves the users table as it was.
C4_EmptySignupRejected ==
  [][ \A c \in Clients, f \in SignupForms :
        ( /\ response'.op = "POST /signup"
          /\ SignupPost(c, f.username, f.password)
          /\ (IsBlank(f.username) \/ f.password = << >>) )
        => ( users' = users /\ response'.flash # "" /\ response'.status = "200" ) ]_vars

C4_Witness ==
  /\ response.op = "POST /signup"
  /\ response.flash = "Username and password are required."
  /\ users # << >>

\* C3: a request to a protected route whose session has no user id, or an id
\* of no user row, is redirected to login and changes nothing in the
\* database; every insert of a transaction or investment and every currency
\* update is made under a session that a successful login set and no logout
\* has cleared since.
NoUser(c) == session[c] = 0 \/ ~(\E i \in 1..Len(users) : users[i].id = session[c])

ProtectedRequest(c) ==
  \/ \E today \in Todays : Dashboard(c, today)
  \/ AddGet(c)
  \/ \E d \in DateInputs, k \in CategoryInputs, a \in AmountInputs : AddPost(c, d, k, a)
  \/ AssetsGet(c)
  \/ \E d \in DateInputs, sh \in SharesInputs, pr \in PriceInputs : AssetsPost(c, d, sh, pr)
  \/ SettingsGet(c)
  \/ \E cur \in CurrencyInputs : SettingsPost(c, cur)

CurrencyUpdated ==
  \E i \in 1..Len(users) : i <= Len(users') /\ users'[i].currency # users[i].currency

LoginSucceeds(c) ==
  \E f \in LoginForms :
     /\ response'.op = "POST /login"
     /\ LoginPost(c, f.username, f.password)
     /\ \E i \in 1..Len(users) :
          /\ StripsTo(f.username, users[i].username)
          /\ users[i].password_hash = generate_password_hash(f.password)
          /\ session'[c] = users[i].id

C3_ProtectedRoutesNeedLogin ==
  /\ [][ \A c \in Clients :
           (NoUser(c) /\ ProtectedRequest(c))
           => (response'.status = "302 /login" /\ UNCHANGED dbVars) ]_vars
  /\ [][ (transactions' # transactions \/ investments' # investments \/ CurrencyUpdated)
           => \E c \in Clients : ProtectedRequest(c) /\ session[c] # 0 ]_vars
  /\ [][ \A c \in Clients :
           (session[c] = 0 /\ session'[c] # 0) => LoginSucceeds(c) ]_vars

C3_Witness ==
  /\ response.op = "POST /add"
  /\ response.status = "302 /login"
  /\ users # << >>
  /\ \A c \in Clients : session[c] = 0

\* C5: a logged-in user's add or assets form with a field that is no number is
\* answered in the normal path with a flash message, and inserts no row.
C5_BadNumberFlashed ==
  [][ \A c \in Clients :
        /\ \A d \in DateInputs, k \in CategoryInputs, a \in AmountInputs :
              (AddPost(c, d, k, a) /\ ~NoUser(c) /\ ~IsNumber(a))
              => ( /\ response'.flash # ""
                   /\ response'.status \in { "200", "302 /" }
                   /\ transactions' = transactions )
        /\ \A d \in DateInputs, sh \in SharesInputs, pr \in PriceInputs :
              (AssetsPost(c, d, sh, pr) /\ ~NoUser(c) /\ (~IsNumber(sh) \/ ~IsNumber(pr)))
              => ( /\ response'.flash # ""
                   /\ response'.status \in { "200", "302 /assets" }
                   /\ investments' = investments ) ]_vars

\* C7: quick_init run on a finance.db that app.py initialised reports the admin
\* user created, and the users table then holds a row with the entered
\* username and the hash of the entered password.
AppInitialised == dbFile /\ cols = CreateCols

C7_QuickInitCreatesAdmin ==
  [][ \A f \in SignupForms :
        (QuickInit(f.username, f.password) /\ AppInitialised)
        => ( /\ response'.status = "Admin user created."
             /\ \E i \in 1..Len(users') :
                  /\ StripsTo(f.username, users'[i].username)
                  /\ "pw_hash" \in DOMAIN users'[i]
                  /\ users'[i].pw_hash = bcrypt_hashpw(f.password) ) ]_vars

\* C8: a row inserted by add or assets carries the id of the session's user;
\* the dashboard and assets pages of a user hold only that user's rows; and a
\* row one user inserts leaves what every other user sees unchanged.
UserIds == { users[i].id : i \in 1..Len(users) }

SeesOnlyOwnRows(uid) ==
  /\ \A today \in Todays :
        LET page == DashboardContext(uid, today)
        IN  /\ \A k \in 1..Len(page.txns) : page.txns[k].user_id = uid
            /\ \A k \in 1..Len(page.invests) : page.invests[k].user_id = uid
            /\ Len(page.txns) =
                 Cardinality({ k \in 1..Len(transactions) : transactions[k].user_id = uid })
  /\ \A k \in 1..Len(AssetsContext(uid).rows) : AssetsContext(uid).rows[k].user_id = uid

PagesOn(txnsTable, invTable, uid) ==
  << [ today \in Todays |-> DashboardContextOn(txnsTable, invTable, uid, today) ],
     AssetsContextOn(invTable, uid) >>

ValidLogin(f, i) ==
  /\ StripsTo(f.username, users[i].username)
  /\ users[i].password_hash = generate_password_hash(f.password)

C10_SessionChangesByLoginLogout ==
  /\ [][ \A c \in Clients :
           session'[c] # session[c] =>
             \/ Logout(c) /\ session'[c] = 0
             \/ LoginSucceeds(c) ]_vars
  /\ [][ \A c \in Clients, f \in LoginForms :
           (response'.op = "POST /login" /\ LoginPost(c, f.username, f.password)) =>
             IF \E i \in 1..Len(users) : ValidLogin(f, i)
             THEN \E i \in 1..Len(users) : ValidLogin(f, i) /\ session'[c] = users[i].id
             ELSE session' = session ]_vars
  /\ [][ \A c \in Clients : Logout(c) => session'[c] = 0 ]_vars

C10_Witness ==
  /\ response.op = "POST /login"
  /\ response.flash = "Invalid username or password."
  /\ \E c \in Clients : session[c] # 0

\* C6: init_db adds exactly the missing columns: it ends with users holding
\* password_hash, created_at and currency and transactions and investments
\* holding user_id, it removes no column and no row, and a second run changes
\* nothing.
DBOn(c, u, t, i) ==
  [ cols |-> c, rows |-> [ users |-> u, transactions |-> t, investments |-> i ], ok |-> TRUE ]

Migrated(c) ==
  /\ { "password_hash", "created_at", "currency" } \subseteq c.users
  /\ "user_id" \in c.transactions
  /\ "user_id" \in c.investments

RowsKept(old, new) ==
  /\ Len(new) = Len(old)
  /\ \A i \in 1..Len(old) : \A col \in DOMAIN old[i] :
        col \in DOMAIN new[i] /\ new[i][col] = old[i][col]

C6_MigrationAddsMissingColumns ==
  [][ InitDb =>
        /\ Migrated(cols')
        /\ \A t \in Tables : cols[t] \subseteq cols'[t]
        /\ \A t \in Tables : cols[t] # {} => cols'[t] \ cols[t] \subseteq
                                   { "password_hash", "created_at", "currency", "user_id" }
        /\ RowsKept(users, users')
        /\ RowsKept(transactions, transactions')
        /\ RowsKept(investments, investments')
        /\ LET again == init_db(DBOn(cols', users', transactions', investments'))
           IN  again.cols = cols' /\ again.rows.users = users'
                 /\ again.rows.transactions = transactions'
                 /\ again.rows.investments = investments' ]_vars

\* C9: the aggregates summarize returns agree with the list and with each
\* other: balance is the sum of the amounts, month_income[m] the sum of the
\* amounts >= 0 of calendar month m, month_expense[m] the sum of the absolute
\* values of the amounts < 0 of month m, category_totals[c] the sum of the
\* amounts of category c; balance = sum(month_income) - sum(month_expense)
\* = the sum of the category totals; no month entry is negative.
InMonth(date, m) ==
  LET y == date \div 10000
  IN  10000 * y + 100 * m < date /\ date < 10000 * y + 100 * (m + 1)

RECURSIVE AmountsAt(_, _)
AmountsAt(txns, I) ==
  IF I = {} THEN 0
  ELSE LET i == CHOOSE k \in I : TRUE IN txns[i].amount + AmountsAt(txns, I \ { i })

C9_SummarizeAggregates ==
  response.op = "summarize" =>
    LET s == response.body
        T == transactions
        I == 1..Len(T)
        cats == { T[i].category : i \in I }
    IN  /\ s.balance = AmountsAt(T, I)
        /\ \A m \in 1..12 :
             /\ s.month_income[m] =
                  AmountsAt(T, { i \in I : T[i].amount >= 0 /\ InMonth(T[i].date, m) })
             /\ s.month_expense[m] =
                  -AmountsAt(T, { i \in I : T[i].amount < 0 /\ InMonth(T[i].date, m) })
             /\ s.month_income[m] >= 0
             /\ s.month_expense[m] >= 0
        /\ DictKeys(s.category_totals) = cats
        /\ Len(s.category_totals) = Cardinality(cats)
        /\ \A c \in cats :
             DictGet(s.category_totals, c) = AmountsAt(T, { i \in I : T[i].category = c })
        /\ s.balance = Sum(s.month_income) - Sum(s.month_expense)
        /\ s.balance = Sum(DictValues(s.category_totals))

C9_Witness ==
  /\ response.op = "summarize"
  /\ Len(transactions) >= 3
  /\ \E i, j \in 1..Len(transactions) :
        /\ transactions[i].date \div 10000 # transactions[j].date \div 10000
        /\ transactions[i].category = transactions[j].category
        /\ transactions[i].amount < 0 /\ transactions[j].amount > 0
  /\ response.body.month_income[12] > 0
  /\ response.body.month_expense[1] > 0

=============================================================================
